---- MODULE Spec2Model ----
(***************************************************************************)
(* Model of electrum_nmc/electrum/gui/qt/uno_list.py (class UNOList):      *)
(* the derivation of a row from a name coin (insert_utxo), the context     *)
(* menu (create_menu, configure_selected_item) and the renewal batch       *)
(* (renew_selected_items).                                                 *)
(*                                                                         *)
(* Python's None is the empty tuple and a present value x is <<x>>, so an  *)
(* Optional[T] is a sequence of length at most one.  bytes are sequences   *)
(* of naturals below 256, a str is a TLA+ string or, for a decoded         *)
(* identifier, a record [chars |-> code points].                           *)
(*                                                                         *)
(* Not modelled: fonts, colours, the frozen-coin tooltips (lines 138-139,  *)
(* 147-155), the label texts of the NAME, VALUE and EXPIRES_IN columns     *)
(* (format_name_identifier, format_name_value, datetime.isoformat are      *)
(* formatters of other modules) and the Transaction Details window.        *)
(***************************************************************************)
EXTENDS Integers, Sequences, FiniteSets, TLC

VARIABLES
    rows,        \* the QStandardItemModel: the rows appended by insert_utxo
    utxo_dict,   \* self.utxo_dict: txout -> utxo
    menu,        \* the QMenu built by the last create_menu: None or <<actions>>
    menu_sel,    \* the rows that were selected when that menu was built
    configured,  \* the calls of show_configure_name, in order
    selected,    \* renew_selected_items: the items of self.selected_in_column(0)
    pc,          \* renew_selected_items: position of the control
    i,           \* renew_selected_items: index of the current item of the for loop
    tx,          \* renew_selected_items: the local tx
    calls,       \* the calls made on the items and on the console namespace, in order
    shown,       \* the calls of parent.show_message / parent.show_error, in order
    exc          \* the exception renew_selected_items propagates to its caller

vars == <<rows, utxo_dict, menu, menu_sel, configured,
          selected, pc, i, tx, calls, shown, exc>>

list_vars == <<rows, utxo_dict, menu, menu_sel, configured>>
renew_vars == <<selected, pc, i, tx, calls, shown, exc>>

----------------------------------------------------------------------------
(* Bounds of the model *)

MaxRows == 2
MaxBatch == 3

----------------------------------------------------------------------------
(* Python values *)

None == <<>>
Some(x) == <<x>>
Val(o) == o[1]

USER_ROLE_TXOUT == 0
USER_ROLE_NAME == 1
USER_ROLE_VALUE == 2

NAME == 0
VALUE == 1
EXPIRES_IN == 2
STATUS == 3

Digits == <<"0", "1", "2", "3", "4", "5", "6", "7", "8", "9">>

RECURSIVE NatToStr(_)
NatToStr(n) ==
    IF n < 10 THEN Digits[n + 1]
    ELSE NatToStr(n \div 10) \o Digits[(n % 10) + 1]

\* str(n) and "%d" % n of an int
IntToStr(n) == IF n < 0 THEN "-" \o NatToStr(0 - n) ELSE NatToStr(n)

HexDigits == <<"0", "1", "2", "3", "4", "5", "6", "7",
               "8", "9", "a", "b", "c", "d", "e", "f">>

\* electrum.util.bh2u: bytes -> lower-case hex str
RECURSIVE bh2u(_)
bh2u(b) ==
    IF b = <<>> THEN ""
    ELSE HexDigits[(Head(b) \div 16) + 1] \o HexDigits[(Head(b) % 16) + 1]
         \o bh2u(Tail(b))

\* bytes.decode('ascii'): raises UnicodeDecodeError on a byte above 127
AsciiDecodable(b) == \A k \in 1..Len(b) : b[k] < 128
decode_ascii(b) == [chars |-> b]

----------------------------------------------------------------------------
(* The inputs of insert_utxo *)

NameA == <<97>>
NameB == <<98>>
NameNonAscii == <<255>>
ValueV == <<118>>

Names == {NameA, NameNonAscii}
Heights == {None, Some(100)}
Tips == {None, Some([block_height |-> 90, timestamp |-> 1000])}

NameNew == [op |-> "name_new"]
NameFirstUpdate(n, v) == [op |-> "name_firstupdate", name |-> n, value |-> v]
NameUpdate(n, v) == [op |-> "name_update", name |-> n, value |-> v]

\* what get_queued_firstupdate_from_new can return for a name_new coin:
\* nothing, an output without a name operation, a name_firstupdate output
QueuedFirstUpdates ==
    {None, Some([name_op |-> None])}
    \cup {Some([name_op |-> Some(NameFirstUpdate(n, ValueV))]) : n \in {NameB}}

NameOps ==
    {None, Some(NameNew)} \cup {Some(NameUpdate(n, ValueV)) : n \in Names}

Utxo(txid, op, h) ==
    [txid |-> txid, vout |-> 0, name_op |-> op, block_height |-> h]

----------------------------------------------------------------------------
(* insert_utxo *)

MinConfirmations == 12
MinutesPerBlock == 10
NameExpiration == 36000
SecondsPerBlock == 600

\* electrum.names.name_expiration_datetime_estimate: the name expires a
\* fixed number of blocks after its height; no estimate without a height
name_expiration_datetime_estimate(height, chain_height, chain_timestamp) ==
    IF height = None THEN <<None, None>>
    ELSE LET blocks == Val(height) - chain_height + NameExpiration
         IN  <<Some(blocks), Some(chain_timestamp + SecondsPerBlock * blocks)>>

\* lines 95-98: the name operation shown for a name_new coin
effective_name_op(name_op, firstupdate_output) ==
    IF firstupdate_output # None /\ Val(firstupdate_output).name_op # None
    THEN Val(Val(firstupdate_output).name_op)
    ELSE name_op

\* registration_status without the confirmations still to come
registration_status_no_confirmations(height, header_at_tip) ==
    IF height # None /\ header_at_tip # None
    THEN "Registration Pending, ETA "
         \o IntToStr(MinutesPerBlock
                     * (Val(height) - Val(header_at_tip).block_height))
         \o "min"
    ELSE "Registration Pending"

\* lines 100-105: the status of a name_new coin
registration_status(height, header_at_tip) ==
    IF height # None /\ header_at_tip # None
    THEN "Registration Pending, ETA "
         \o IntToStr(MinutesPerBlock
                     * (Val(height) - Val(header_at_tip).block_height
                        + MinConfirmations))
         \o "min"
    ELSE "Registration Pending"

\* anyupdate_expiry that drops the estimate it was given
anyupdate_expiry_dropped(height, header_at_tip) ==
    IF header_at_tip # None
    THEN [expires_in |-> None, expires_datetime |-> None,
          consulted |-> <<<<height, Val(header_at_tip).block_height,
                            Val(header_at_tip).timestamp>>>>]
    ELSE [expires_in |-> None, expires_datetime |-> None, consulted |-> <<>>]

\* lines 108-111: the expiration of a name_anyupdate coin, and the calls of
\* the estimator it made
anyupdate_expiry(height, header_at_tip) ==
    IF header_at_tip # None
    THEN LET est == name_expiration_datetime_estimate(
                        height, Val(header_at_tip).block_height,
                        Val(header_at_tip).timestamp)
         IN  [expires_in |-> est[1], expires_datetime |-> est[2],
              consulted |-> <<<<height, Val(header_at_tip).block_height,
                                Val(header_at_tip).timestamp>>>>]
    ELSE [expires_in |-> None, expires_datetime |-> None, consulted |-> <<>>]

\* anyupdate_status with the two texts exchanged
anyupdate_status_exchanged(expires_in) ==
    IF expires_in # None THEN "Update Pending" ELSE ""

\* line 112
anyupdate_status(expires_in) ==
    IF expires_in # None THEN "" ELSE "Update Pending"

\* lines 114-125: the identifier and the value stored in the row
name_and_value(name_op) ==
    IF "name" \in DOMAIN name_op
    THEN [name |-> Some(name_op.name), value |-> Some(name_op.value)]
    ELSE [name |-> None, value |-> None]

\* line 127
format_expires_in(expires_in) ==
    IF expires_in # None
    THEN "Expires in " \o IntToStr(Val(expires_in))
         \o " blocks\nDate/time is only an estimate; do not rely on it!"
    ELSE ""

\* lines 83-156, for a utxo with a name operation: the row appended to the
\* model.  utxo, tip and consulted are not data of the row: they record what
\* the call read and which estimator calls it made.
insert_utxo(utxo, header_at_tip, firstupdate_output) ==
    LET name_op == Val(utxo.name_op)
        height == utxo.block_height
        is_new == ~("name" \in DOMAIN name_op)
        shown_op == IF is_new
                    THEN effective_name_op(name_op, firstupdate_output)
                    ELSE name_op
        exp == IF is_new
               THEN [expires_in |-> None, expires_datetime |-> None,
                     consulted |-> <<>>]
               ELSE anyupdate_expiry(height, header_at_tip)
        status == IF is_new
                  THEN registration_status(height, header_at_tip)
                  ELSE anyupdate_status(exp.expires_in)
        nv == name_and_value(shown_op)
    IN  [txout |-> <<utxo.txid, utxo.vout>>,
         name |-> nv.name,
         value |-> nv.value,
         expires_in |-> exp.expires_in,
         expires_datetime |-> exp.expires_datetime,
         tooltip |-> format_expires_in(exp.expires_in),
         status |-> status,
         utxo |-> utxo,
         tip |-> header_at_tip,
         consulted |-> exp.consulted]

\* The handler: one call of insert_utxo by the refresh of the list
InsertUtxo ==
    /\ menu = None
    /\ Len(rows) < MaxRows
    /\ \E op \in NameOps, h \in Heights, tip \in Tips, fu \in QueuedFirstUpdates :
         LET utxo == Utxo(Len(rows) + 1, op, h)
         IN  IF utxo.name_op = None
             THEN UNCHANGED <<rows, utxo_dict>>
             ELSE \* get_queued_firstupdate_from_new is only called for name_new
                  /\ ("name" \in DOMAIN Val(op) => fu = None)
                  /\ rows' = Append(rows, insert_utxo(utxo, tip, fu))
                  /\ utxo_dict' = utxo_dict \cup {<<<<utxo.txid, utxo.vout>>, utxo>>}
    /\ UNCHANGED <<menu, menu_sel, configured>>
    /\ UNCHANGED renew_vars

----------------------------------------------------------------------------
(* create_menu and configure_selected_item *)

\* the sequences of distinct elements of S (a selection, in selection order)
DistinctSeqs(S) ==
    UNION {{q \in [1..n -> S] : \A a, b \in 1..n : a # b => q[a] # q[b]}
           : n \in 0..Cardinality(S)}

\* what indexAt(position).column() can be: a column, or -1 off the rows
ClickedColumns == {-1, NAME, VALUE, EXPIRES_IN, STATUS}

\* item.data(Qt.UserRole + role) of the NAME item of a row
data(row, role) ==
    CASE role = USER_ROLE_TXOUT -> Some(row.txout)
      [] role = USER_ROLE_NAME -> row.name
      [] role = USER_ROLE_VALUE -> row.value

\* lines 161-189: the data of the selected rows, None without a selection
selected_column_0_user_role(items, role) ==
    IF items = <<>> THEN None
    ELSE Some([k \in 1..Len(items) |-> data(items[k], role)])

\* lines 203-209: the actions offered for a single selected row
single_row_actions(sel, tx_in_db) ==
    IF Len(sel) = 1
    THEN LET txid == Val(sel[1])[1]
         IN  IF tx_in_db
             THEN <<[label |-> "Configure", args |-> <<>>],
                    [label |-> "Transaction Details", args |-> <<txid>>]>>
             ELSE <<>>
    ELSE <<>>

\* lines 213-222: the data a copy would take, by clicked column
copy_source(items, col) ==
    IF col = NAME
    THEN [data |-> selected_column_0_user_role(items, USER_ROLE_NAME),
          type |-> "identifier"]
    ELSE IF col = VALUE
    THEN [data |-> selected_column_0_user_role(items, USER_ROLE_VALUE),
          type |-> "value"]
    ELSE [data |-> None, type |-> ""]

\* lines 224-236: the copy actions
copy_actions(src) ==
    IF src.data # None /\ Len(Val(src.data)) = 1
    THEN LET d == Val(src.data)[1]
         IN  IF d # None
             THEN (IF AsciiDecodable(Val(d))
                   THEN <<[label |-> "Copy " \o src.type \o " as ASCII",
                           args |-> <<decode_ascii(Val(d))>>]>>
                   ELSE <<>>)
                  \o <<[label |-> "Copy " \o src.type \o " as hex",
                        args |-> <<bh2u(Val(d))>>]>>
             ELSE <<>>
    ELSE <<>>

\* lines 196-238: the menu shown for the selected items and the clicked
\* column, None when create_menu returns without a menu
create_menu(items, col, tx_in_db) ==
    LET sel == selected_column_0_user_role(items, USER_ROLE_TXOUT)
    IN  IF sel = None THEN None
        ELSE Some(<<[label |-> "Renew", args |-> <<>>]>>
                  \o single_row_actions(Val(sel), tx_in_db)
                  \o copy_actions(copy_source(items, col)))

Items(sel) == [k \in 1..Len(sel) |-> rows[sel[k]]]

\* The handler: a right click with the rows sel selected.  menu.exec_ (line
\* 238) blocks until the user picks an action or dismisses the menu.
CreateMenu ==
    /\ menu = None
    /\ \E sel \in DistinctSeqs(1..Len(rows)), col \in ClickedColumns,
          tx_in_db \in BOOLEAN :
         /\ menu' = create_menu(Items(sel), col, tx_in_db)
         /\ menu_sel' = IF menu' = None THEN <<>> ELSE sel
    /\ UNCHANGED <<rows, utxo_dict, configured>>
    /\ UNCHANGED renew_vars

Offers(m, label) == m # None /\ \E k \in 1..Len(Val(m)) : Val(m)[k].label = label

\* lines 291-303: the call of show_configure_name, None when it returns early
configure_selected_item(items) ==
    IF items = <<>> THEN None
    ELSE IF Len(items) # 1 THEN None
    ELSE Some([identifier |-> data(items[1], USER_ROLE_NAME),
               initial_value |-> data(items[1], USER_ROLE_VALUE)])

\* The handler: the user picks Configure in the menu
ConfigureSelectedItem ==
    /\ Offers(menu, "Configure")
    /\ configured' = configure_selected_item(Items(menu_sel))
    /\ menu' = None
    /\ menu_sel' = <<>>
    /\ UNCHANGED <<rows, utxo_dict>>
    /\ UNCHANGED renew_vars

\* line 238: menu.exec_ returns without an action of this class triggered
DismissMenu ==
    /\ menu # None
    /\ menu' = None
    /\ menu_sel' = <<>>
    /\ UNCHANGED <<rows, utxo_dict, configured>>
    /\ UNCHANGED renew_vars

InitRenewIdle ==
    /\ selected = <<>>
    /\ pc = "idle"
    /\ i = 0
    /\ tx = None
    /\ calls = <<>>
    /\ shown = <<>>
    /\ exc = None

InitList ==
    /\ rows = <<>>
    /\ utxo_dict = {}
    /\ menu = None
    /\ menu_sel = <<>>
    /\ configured = None
    /\ InitRenewIdle

NextList == InsertUtxo \/ CreateMenu \/ ConfigureSelectedItem \/ DismissMenu

SpecList == InitList /\ [][NextList]_vars

----------------------------------------------------------------------------
(* renew_selected_items *)

\* what the console's name_update does for a decodable identifier: it
\* returns a transaction or raises
UpdateResults == {"ok", "NameUpdatedTooRecentlyError", "NotEnoughFunds",
                  "NoDynamicFeeEstimates", "InternalAddressCorruption",
                  "Exception"}

\* what broadcast does: it returns or raises an Exception
BroadcastResults == {"ok", "Exception"}

\* the truth value of what addtransaction returns (the txid, or False)
AddTransactionResults == BOOLEAN

\* the coins of the rows a renewal is started on: utxo operation, height,
\* chain tip and queued first-update
RenewCoins ==
    {<<Some(NameUpdate(NameA, ValueV)), None>>,
     <<Some(NameUpdate(NameNonAscii, ValueV)), None>>,
     <<Some(NameNew), None>>,
     <<Some(NameNew), Some([name_op |-> Some(NameFirstUpdate(NameB, ValueV))])>>}

RenewTip == Some([block_height |-> 90, timestamp |-> 1000])

Table(coins) ==
    [k \in 1..Len(coins) |->
        insert_utxo(Utxo(k, coins[k][1], Some(100)), RenewTip, coins[k][2])]

Call(op, item, arg, res) == [op |-> op, item |-> item, arg |-> arg, res |-> res]
Show(fn, item, text, name, e) ==
    [fn |-> fn, item |-> item, text |-> text, name |-> name, exc |-> e]

\* update_except that goes on with the next item after a funds error
update_except_funds_continue(e) ==
    IF e = "NameUpdatedTooRecentlyError"
    THEN [traceback |-> FALSE, show |-> None, then |-> "continue"]
    ELSE IF e \in {"NotEnoughFunds", "NoDynamicFeeEstimates"}
    THEN [traceback |-> FALSE, show |-> Some("show_message"), then |-> "continue"]
    ELSE IF e = "InternalAddressCorruption"
    THEN [traceback |-> FALSE, show |-> Some("show_error"), then |-> "raise"]
    ELSE [traceback |-> TRUE, show |-> Some("show_message"), then |-> "return"]

\* update_except that ends the batch on a name updated too recently
update_except_too_recent_returns(e) ==
    IF e = "NameUpdatedTooRecentlyError"
    THEN [traceback |-> FALSE, show |-> None, then |-> "return"]
    ELSE IF e \in {"NotEnoughFunds", "NoDynamicFeeEstimates"}
    THEN [traceback |-> FALSE, show |-> Some("show_message"), then |-> "return"]
    ELSE IF e = "InternalAddressCorruption"
    THEN [traceback |-> FALSE, show |-> Some("show_error"), then |-> "raise"]
    ELSE [traceback |-> TRUE, show |-> Some("show_message"), then |-> "return"]

\* update_except that returns instead of re-raising the corruption
update_except_corruption_swallowed(e) ==
    IF e = "NameUpdatedTooRecentlyError"
    THEN [traceback |-> FALSE, show |-> None, then |-> "continue"]
    ELSE IF e \in {"NotEnoughFunds", "NoDynamicFeeEstimates"}
    THEN [traceback |-> FALSE, show |-> Some("show_message"), then |-> "return"]
    ELSE IF e = "InternalAddressCorruption"
    THEN [traceback |-> FALSE, show |-> Some("show_error"), then |-> "return"]
    ELSE [traceback |-> TRUE, show |-> Some("show_message"), then |-> "return"]

\* update_except that goes on with the next item after an unclassified error
update_except_other_continue(e) ==
    IF e = "NameUpdatedTooRecentlyError"
    THEN [traceback |-> FALSE, show |-> None, then |-> "continue"]
    ELSE IF e \in {"NotEnoughFunds", "NoDynamicFeeEstimates"}
    THEN [traceback |-> FALSE, show |-> Some("show_message"), then |-> "return"]
    ELSE IF e = "InternalAddressCorruption"
    THEN [traceback |-> FALSE, show |-> Some("show_error"), then |-> "raise"]
    ELSE [traceback |-> TRUE, show |-> Some("show_message"), then |-> "continue"]

\* lines 258-270: the except clauses of the first try, in order, for the
\* exception e: what is shown, and how the loop goes on
update_except(e) ==
    IF e = "NameUpdatedTooRecentlyError"
    THEN [traceback |-> FALSE, show |-> None, then |-> "continue"]
    ELSE IF e \in {"NotEnoughFunds", "NoDynamicFeeEstimates"}
    THEN [traceback |-> FALSE, show |-> Some("show_message"), then |-> "return"]
    ELSE IF e = "InternalAddressCorruption"
    THEN [traceback |-> FALSE, show |-> Some("show_error"), then |-> "raise"]
    ELSE [traceback |-> TRUE, show |-> Some("show_message"), then |-> "return"]

\* broadcast_then that skips addtransaction
broadcast_then_skip_add(res) == "continue"

\* lines 272-277: after broadcast(tx)
broadcast_then(res) == IF res = "ok" THEN "addtransaction" ELSE "continue"

\* addtransaction_failed that takes every status for a success
addtransaction_failed_never(status) == FALSE

\* lines 285-289: whether the failure of addtransaction is shown
addtransaction_failed(status) == ~status

\* line 257: the exception raised before name_update is called, "" if none
decode_error(identifier) ==
    IF identifier = None THEN "AttributeError"
    ELSE IF ~AsciiDecodable(Val(identifier)) THEN "UnicodeDecodeError"
    ELSE ""

\* lines 244-250
RenewSelectedItems ==
    /\ pc = "idle"
    /\ \E sel \in {<<>>, [k \in 1..Len(rows) |-> k]} :
         /\ selected' = Items(sel)
         /\ pc' = IF selected' = <<>> THEN "returned" ELSE "for"
    /\ i' = 0
    /\ UNCHANGED <<tx, calls, shown, exc>>
    /\ UNCHANGED list_vars

\* lines 252-253: the next item of the loop, or the end of the function
ForItem ==
    /\ pc = "for"
    /\ IF i = Len(selected)
       THEN /\ pc' = "returned"
            /\ UNCHANGED <<i, calls>>
       ELSE /\ i' = i + 1
            /\ calls' = Append(calls, Call("data", i + 1, <<USER_ROLE_NAME>>,
                                           "ok"))
            /\ pc' = "name_update"
    /\ UNCHANGED <<selected, tx, shown, exc>>
    /\ UNCHANGED list_vars

\* lines 255-270
NameUpdateStep ==
    /\ pc = "name_update"
    /\ LET identifier == data(selected[i], USER_ROLE_NAME)
           early == decode_error(identifier)
       IN  \E res \in UpdateResults :
             LET e == IF early # "" THEN early ELSE res
                 h == update_except(e)
             IN  /\ calls' = IF early # "" THEN calls
                             ELSE Append(calls,
                                         Call("name_update", i,
                                              <<decode_ascii(Val(identifier))>>,
                                              res))
                 /\ IF e = "ok"
                    THEN /\ tx' = Some([hex |-> i])
                         /\ pc' = "broadcast"
                         /\ UNCHANGED <<shown, exc>>
                    ELSE /\ tx' = tx
                         /\ shown' = shown
                              \o (IF h.traceback
                                  THEN <<Show("traceback.print_exc", i, "",
                                              None, Some(e))>>
                                  ELSE <<>>)
                              \o (IF h.show # None
                                  THEN <<Show(Val(h.show), i, "", None, Some(e))>>
                                  ELSE <<>>)
                         /\ pc' = CASE h.then = "continue" -> "for"
                                    [] h.then = "return" -> "returned"
                                    [] h.then = "raise" -> "raised"
                         /\ exc' = IF h.then = "raise" THEN Some(e) ELSE exc
    /\ UNCHANGED <<selected, i>>
    /\ UNCHANGED list_vars

\* lines 272-277
BroadcastStep ==
    /\ pc = "broadcast"
    /\ \E res \in BroadcastResults :
         /\ calls' = Append(calls, Call("broadcast", i, <<Val(tx)>>, res))
         /\ IF broadcast_then(res) = "addtransaction"
            THEN /\ pc' = "addtransaction"
                 /\ shown' = shown
            ELSE /\ pc' = "for"
                 /\ shown' = Append(shown,
                                    Show("show_error", i,
                                         "Error broadcasting renewal for ",
                                         data(selected[i], USER_ROLE_NAME),
                                         Some(res)))
    /\ UNCHANGED <<selected, i, tx, exc>>
    /\ UNCHANGED list_vars

\* lines 285-289
AddTransactionStep ==
    /\ pc = "addtransaction"
    /\ \E status \in AddTransactionResults :
         /\ calls' = Append(calls, Call("addtransaction", i, <<Val(tx)>>,
                                        IF status THEN "ok" ELSE "False"))
         /\ shown' = IF addtransaction_failed(status)
                     THEN Append(shown,
                                 Show("show_error", i,
                                      "Error adding renewal for ",
                                      data(selected[i], USER_ROLE_NAME), None))
                     ELSE shown
    /\ pc' = "for"
    /\ UNCHANGED <<selected, i, tx, exc>>
    /\ UNCHANGED list_vars

\* the list as a refresh left it, nothing selected yet
InitRenew ==
    /\ \E n \in 0..MaxBatch : \E coins \in [1..n -> RenewCoins] :
         /\ rows = Table(coins)
         /\ utxo_dict = {<<rows[k].txout, rows[k].utxo>> : k \in 1..n}
    /\ menu = None
    /\ menu_sel = <<>>
    /\ configured = None
    /\ InitRenewIdle

NextRenew ==
    \/ RenewSelectedItems
    \/ ForItem
    \/ NameUpdateStep
    \/ BroadcastStep
    \/ AddTransactionStep

SpecRenew == InitRenew /\ [][NextRenew]_vars

----------------------------------------------------------------------------
(* Properties of insert_utxo and of the menu, checked under SpecList *)

Row(k) == rows[k]
RowIds == 1..Len(rows)
OwnOp(r) == Val(r.utxo.name_op)
IsAnyUpdate(r) == "name" \in DOMAIN OwnOp(r)
IsNew(r) == ~IsAnyUpdate(r)
Estimate(r) ==
    name_expiration_datetime_estimate(r.utxo.block_height,
                                      Val(r.tip).block_height,
                                      Val(r.tip).timestamp)
CopyLabels == {"Copy identifier as ASCII", "Copy identifier as hex",
               "Copy value as ASCII", "Copy value as hex"}

\* C6: while a row whose identifier and value are absent is among the
\* selected rows, the menu offers neither Configure nor any copy action.
C6_AbsentRowNoCopyNoConfigure ==
    menu # None =>
        \A k \in 1..Len(menu_sel) :
            (Row(menu_sel[k]).name = None /\ Row(menu_sel[k]).value = None)
            => /\ ~Offers(menu, "Configure")
               /\ \A l \in CopyLabels : ~Offers(menu, l)

\* C7 as stated: expires_in is present iff the chain tip is known and the
\* coin's own name operation is AnyUpdate.
C7_PresentIffTipAndAnyUpdate ==
    \A k \in RowIds :
        (Row(k).expires_in # None) <=> (Row(k).tip # None /\ IsAnyUpdate(Row(k)))

\* C7 amended: expires_in is present iff the chain tip is known, the coin's
\* own name operation is AnyUpdate and the expiration estimator returns an
\* estimate for the coin's height at that tip.
C7_PresentIffTipAnyUpdateAndEstimate ==
    \A k \in RowIds :
        (Row(k).expires_in # None)
        <=> (/\ Row(k).tip # None
             /\ IsAnyUpdate(Row(k))
             /\ Estimate(Row(k))[1] # None)

\* a name_anyupdate coin without a height, inserted at a known tip, next to
\* one with a height
C7_Witness ==
    /\ \E k \in RowIds :
         /\ IsAnyUpdate(Row(k)) /\ Row(k).tip # None
         /\ Row(k).utxo.block_height = None
         /\ Row(k).expires_in = None
    /\ \E k \in RowIds :
         /\ IsAnyUpdate(Row(k)) /\ Row(k).tip # None
         /\ Row(k).expires_in # None

\* C8 as stated: a name_new coin at height 100 inserted at a tip of height
\* 90 has the status "Registration Pending, ETA 120min".
C8_RegistrationEta120 ==
    \A k \in RowIds :
        (/\ IsNew(Row(k))
         /\ Row(k).utxo.block_height = Some(100)
         /\ Row(k).tip # None
         /\ Val(Row(k).tip).block_height = 90)
        => Row(k).status = "Registration Pending, ETA 120min"

\* C8 amended: a name_new coin at height 100 inserted at a tip of height 90
\* has the status "Registration Pending, ETA 220min", the text of
\* 10 * (100 - 90 + 12) = 220.
C8_RegistrationEta220 ==
    \A k \in RowIds :
        (/\ IsNew(Row(k))
         /\ Row(k).utxo.block_height = Some(100)
         /\ Row(k).tip # None
         /\ Val(Row(k).tip).block_height = 90)
        => Row(k).status = "Registration Pending, ETA 220min"

C8_Witness ==
    \E k \in RowIds :
        /\ IsNew(Row(k))
        /\ Row(k).utxo.block_height = Some(100)
        /\ Row(k).tip # None
        /\ Val(Row(k).tip).block_height = 90
        /\ Row(k).status # "Registration Pending"

\* C9: for a name_anyupdate coin, expires_in is what the estimator returns
\* for (height, tip height, tip timestamp) when the tip is known; with no tip
\* it is None and the estimator is not called; the status is "" exactly when
\* expires_in is present and "Update Pending" otherwise.
C9_AnyUpdateExpiryAndStatus ==
    \A k \in RowIds :
        IsAnyUpdate(Row(k)) =>
            /\ Row(k).tip # None =>
                 /\ Row(k).expires_in = Estimate(Row(k))[1]
                 /\ Row(k).expires_datetime = Estimate(Row(k))[2]
                 /\ Row(k).consulted =
                      <<<<Row(k).utxo.block_height, Val(Row(k).tip).block_height,
                          Val(Row(k).tip).timestamp>>>>
            /\ Row(k).tip = None =>
                 /\ Row(k).expires_in = None
                 /\ Row(k).consulted = <<>>
            /\ (Row(k).status = "") <=> (Row(k).expires_in # None)
            /\ Row(k).expires_in = None => Row(k).status = "Update Pending"

\* a name_anyupdate coin with an estimate and one inserted without a tip
C9_Witness ==
    /\ \E k \in RowIds :
         IsAnyUpdate(Row(k)) /\ Row(k).expires_in # None /\ Row(k).status = ""
    /\ \E k \in RowIds :
         IsAnyUpdate(Row(k)) /\ Row(k).tip = None

----------------------------------------------------------------------------
(* Properties of renew_selected_items, checked under SpecRenew *)

CallIds == 1..Len(calls)
ShownIds == 1..Len(shown)
ItemIds == 1..Len(selected)
Terminal == pc \in {"returned", "raised"}
Has(op, k, res) ==
    \E p \in CallIds :
        calls[p].op = op /\ calls[p].item = k /\ calls[p].res = res
Called(op, k) == \E p \in CallIds : calls[p].op = op /\ calls[p].item = k
Attempted(k) == Called("data", k)
Identifier(k) == selected[k].name
Decodable(k) == Identifier(k) # None /\ AsciiDecodable(Val(Identifier(k)))
ShownTo(k) == \E q \in ShownIds : shown[q].item = k
LastCall == calls[Len(calls)]
LastShown == shown[Len(shown)]

\* the outcomes of the renewal of item k
Renewed(k) ==
    /\ Has("name_update", k, "ok") /\ Has("broadcast", k, "ok")
    /\ Has("addtransaction", k, "ok")
    /\ ~ShownTo(k)
SkippedTooRecent(k) ==
    /\ Has("name_update", k, "NameUpdatedTooRecentlyError")
    /\ ~Called("broadcast", k) /\ ~Called("addtransaction", k)
    /\ ~ShownTo(k)
FailedBroadcast(k) ==
    /\ Has("broadcast", k, "Exception")
    /\ \E q \in ShownIds :
         shown[q] = Show("show_error", k, "Error broadcasting renewal for ",
                         Identifier(k), Some("Exception"))
FailedAddToWallet(k) ==
    /\ Has("addtransaction", k, "False")
    /\ \E q \in ShownIds :
         shown[q] = Show("show_error", k, "Error adding renewal for ",
                         Identifier(k), None)

\* C1: the calls follow the input order, one item at a time, and when
\* name_update and broadcast of item N succeeded, addtransaction of item N
\* with the transaction of N was called before name_update of item N+1.
C1_AddBeforeNextUpdate ==
    /\ \A p, q \in CallIds : p < q => calls[p].item <= calls[q].item
    /\ \A p \in CallIds :
         calls[p].op = "name_update" =>
             calls[p].arg = <<decode_ascii(Val(Identifier(calls[p].item)))>>
    /\ \A k \in ItemIds : (k > 1 /\ Attempted(k)) => Attempted(k - 1)
    /\ \A p \in CallIds :
         LET n == calls[p].item - 1
         IN  (/\ calls[p].op = "name_update"
              /\ n >= 1
              /\ Has("name_update", n, "ok")
              /\ Has("broadcast", n, "ok"))
             => \E q \in 1..(p - 1) :
                    /\ calls[q].op = "addtransaction"
                    /\ calls[q].item = n
                    /\ calls[q].arg = <<[hex |-> n]>>

C1_Witness ==
    /\ Len(selected) >= 2
    /\ Renewed(1)
    /\ Called("name_update", 2)

FundsErrors == {"NotEnoughFunds", "NoDynamicFeeEstimates"}

\* C2: after name_update raised NotEnoughFunds or NoDynamicFeeEstimates, no
\* further call is made on this or a later item, the message of the
\* exception is shown with show_message and the function has returned
\* without an exception.
C2_FundsErrorAbortsBatch ==
    \A p \in CallIds :
        (calls[p].op = "name_update" /\ calls[p].res \in FundsErrors)
        => /\ p = Len(calls)
           /\ pc = "returned"
           /\ exc = None
           /\ shown # <<>>
           /\ LastShown = Show("show_message", calls[p].item, "", None,
                               Some(calls[p].res))
           /\ \A k \in ItemIds : k > calls[p].item => ~Attempted(k)

C2_Witness ==
    /\ Len(selected) >= 2
    /\ Has("name_update", 1, "NotEnoughFunds")
    /\ pc = "returned"
    /\ ~Attempted(2)

\* C3: an item whose name_update raised NameUpdatedTooRecentlyError is not
\* broadcast, not added and nothing is shown for it, no exception
\* propagates, and once the function has ended the next item was attempted;
\* when no other failure happened in the batch, every item ends renewed or
\* skipped.
C3_TooRecentIsSkipped ==
    /\ \A k \in ItemIds :
         Has("name_update", k, "NameUpdatedTooRecentlyError") =>
             /\ SkippedTooRecent(k)
             /\ ~(pc = "returned" /\ i = k /\ k < Len(selected))
             /\ pc # "raised" \/ i # k
             /\ (Terminal /\ k < Len(selected)) => Attempted(k + 1)
    /\ (/\ Terminal
        /\ \A k \in ItemIds : Decodable(k)
        /\ \A p \in CallIds :
             calls[p].res \in {"ok", "NameUpdatedTooRecentlyError"})
       => /\ pc = "returned"
          /\ exc = None
          /\ shown = <<>>
          /\ \A k \in ItemIds : Renewed(k) \/ SkippedTooRecent(k)

\* the batch [A, B, C] with only B too recent: Renewed, Skipped, Renewed
C3_Witness ==
    /\ Len(selected) = 3
    /\ pc = "returned"
    /\ Renewed(1) /\ SkippedTooRecent(2) /\ Renewed(3)

\* C4: after name_update raised InternalAddressCorruption, its message is
\* shown with show_error, no further call is made on this or a later item,
\* and the exception propagates out of the function.
C4_CorruptionPropagates ==
    \A p \in CallIds :
        (calls[p].op = "name_update"
         /\ calls[p].res = "InternalAddressCorruption")
        => /\ p = Len(calls)
           /\ pc = "raised"
           /\ exc = Some("InternalAddressCorruption")
           /\ shown # <<>>
           /\ LastShown = Show("show_error", calls[p].item, "", None,
                               Some("InternalAddressCorruption"))
           /\ \A k \in ItemIds : k > calls[p].item => ~Attempted(k)

C4_Witness ==
    /\ Len(selected) >= 2
    /\ Has("name_update", 1, "InternalAddressCorruption")
    /\ pc = "raised"

\* C5: a failed broadcast leaves the item without addtransaction, shows the
\* error and the next item is attempted; a failed addtransaction shows the
\* error and the next item is attempted; addtransaction succeeds only after
\* name_update and broadcast succeeded, and then nothing is shown.
C5_PerItemFailuresIsolated ==
    \A k \in ItemIds :
        /\ Has("broadcast", k, "Exception") =>
             /\ FailedBroadcast(k)
             /\ ~Called("addtransaction", k)
             /\ (Terminal /\ k < Len(selected)) => Attempted(k + 1)
             /\ Terminal => i > k \/ (pc = "returned" /\ k = Len(selected))
        /\ Has("addtransaction", k, "False") =>
             /\ FailedAddToWallet(k)
             /\ Has("name_update", k, "ok") /\ Has("broadcast", k, "ok")
             /\ (Terminal /\ k < Len(selected)) => Attempted(k + 1)
             /\ Terminal => i > k \/ (pc = "returned" /\ k = Len(selected))
        /\ Has("addtransaction", k, "ok") => Renewed(k)
        /\ Called("broadcast", k) => Has("name_update", k, "ok")
        /\ Called("addtransaction", k) => Has("broadcast", k, "ok")

C5_Witness ==
    /\ Len(selected) = 3
    /\ Terminal
    /\ FailedBroadcast(1) /\ FailedAddToWallet(2) /\ Renewed(3)

\* C10: an item whose identifier is absent or not ASCII never reaches
\* name_update; for such an item, and for an item whose name_update raised
\* an unclassified exception, nothing is broadcast or added, no later item
\* is attempted, the traceback is printed, the message is shown with
\* show_message and the function returns without an exception.
C10_OtherFailureAbortsBatch ==
    \A k \in ItemIds :
        LET undecodable == Attempted(k) /\ ~Decodable(k) /\ pc # "name_update"
            unclassified == Has("name_update", k, "Exception")
            e == IF unclassified THEN "Exception"
                 ELSE decode_error(Identifier(k))
        IN  /\ ~Decodable(k) => ~Called("name_update", k)
            /\ (undecodable \/ unclassified) =>
                 /\ LastCall.item = k
                 /\ LastCall.op = IF unclassified THEN "name_update" ELSE "data"
                 /\ ~Called("broadcast", k) /\ ~Called("addtransaction", k)
                 /\ \A m \in ItemIds : m > k => ~Attempted(m)
                 /\ pc = "returned"
                 /\ exc = None
                 /\ Len(shown) >= 2
                 /\ shown[Len(shown) - 1] =
                      Show("traceback.print_exc", k, "", None, Some(e))
                 /\ LastShown = Show("show_message", k, "", None, Some(e))

C10_Witness ==
    /\ Len(selected) = 3
    /\ pc = "returned"
    /\ Renewed(1)
    /\ Identifier(2) = None
    /\ ~Called("name_update", 2)
    /\ ~Attempted(3)

====
